---- MODULE Spec2Model ----
(***************************************************************************)
(* Push-to-talk session controllers of blurt.                              *)
(*                                                                         *)
(*   Spec        blurt.HotkeyHandler (X11 monitor thread + asyncio loop),  *)
(*               blurt.AudioRecorder and Blurt._on_voice_text              *)
(*   SpecSimple  tab_voice.SimpleHotkeyHandler (pynput callbacks + worker  *)
(*               threads) with SimpleAudioRecorder                         *)
(*   SpecText    Blurt._on_voice_text and TextOutput.type_text as          *)
(*               functions of the recognised text                          *)
(*   SpecRecorder  one blurt.AudioRecorder called through start_recording  *)
(*               and stop_recording in any order                           *)
(*   SpecMain    the process from main() / main_daemon() through           *)
(*               Blurt.__init__ and Blurt.run                              *)
(*   SpecRecognize  one call of SpeechRecognizer.recognize, the engine's   *)
(*               answers chosen freely                                     *)
(*   SpecWav     the WAV container AudioRecorder.stop_recording builds     *)
(*   SpecCli     BlurtCLI.start / stop / _is_running against a PID file    *)
(*               and a process table                                       *)
(*   SpecSound   SoundPlayer._play_sound and its playback threads          *)
(*                                                                         *)
(* Spec takes HotkeyHandler.start() to be running on an event loop; what   *)
(* Blurt.run does with start() is the matter of SpecMain.                  *)
(*                                                                         *)
(* Time is counted in ticks of TickMs milliseconds.  The monitor thread    *)
(* handles one X event per step; the event loop runs one coroutine segment *)
(* per step (from one await that suspends to the next), in FIFO order of   *)
(* scheduling, as asyncio's ready queue does.  run_coroutine_threadsafe is *)
(* taken to deliver the coroutine to the loop that runs start().           *)
(***************************************************************************)
EXTENDS Integers, Sequences, FiniteSets, TLC

VARIABLES
    \* ---- HotkeyHandler (src/src/blurt/hotkey_handler.py)
    now,             \* time.time(), in ticks
    is_recording,    \* HotkeyHandler.is_recording
    press_time,      \* HotkeyHandler.press_time (None or a time)
    audio_recorder,  \* HotkeyHandler.audio_recorder: 0 = no attribute, else index in recorders
    recorders,       \* every AudioRecorder instance created so far
    ready,           \* coroutines scheduled on the loop and not yet started (FIFO)
    sleeping,        \* _handle_keyrelease coroutines suspended in asyncio.sleep
    \* ---- history of the HotkeyHandler run
    event,           \* the X event the monitor handled last
    last,            \* what the most recent handler step (monitor or loop) did
    nevents,         \* number of X events handled
    npress,          \* number of accepted presses (those that set press_time)
    short_released,  \* accepted presses whose release came before the threshold
    long_released,   \* accepted presses whose release met the threshold
    stopped_for,     \* presses whose release coroutine called stop_recording
    callback_for,    \* presses whose release coroutine called on_voice_callback
    run_id,          \* number of qualifying releases delivered so far
    run_presses,     \* qualifying presses delivered since the last qualifying release
    run_idle,        \* the handler was idle and the loop empty at the run's first press
    keystrokes,      \* characters given to keyboard.type by the latest callback
    process          \* "running", "exiting" (sys.exit called) or "terminated"

hvars == <<now, is_recording, press_time, audio_recorder, recorders, ready, sleeping,
           event, last, nevents, npress, short_released, long_released,
           stopped_for, callback_for, run_id, run_presses, run_idle, keystrokes,
           process>>

VARIABLES
    \* ---- Blurt._on_voice_text / TextOutput.type_text called on their own
    t_entry,         \* which of the two ran last
    t_text,          \* the text it was given
    t_type_text,     \* number of type_text calls it made or was
    t_keys           \* the keyboard.type calls, in order

tvars == <<t_entry, t_text, t_type_text, t_keys>>

VARIABLES
    \* ---- SimpleHotkeyHandler (src/src/tab_voice/simple_hotkey.py)
    s_held,              \* keys physically down
    s_ctrl_pressed,      \* SimpleHotkeyHandler.ctrl_pressed
    s_is_recording,      \* SimpleHotkeyHandler.is_recording
    s_recording_started, \* SimpleHotkeyHandler.recording_started
    s_audio_recorder,    \* SimpleHotkeyHandler.audio_recorder: 0 = no attribute
    s_recorders,         \* every SimpleAudioRecorder created so far
    s_threads,           \* every _start_recording / _stop_recording thread spawned
    s_keys,              \* the keyboard.type calls so far: <<session, character>>
    s_nkeys,             \* number of key events handled
    s_session,           \* number of sessions started
    s_last,              \* what the latest key event did
    s_hold,              \* ticks since the press that started the current session
    s_short              \* sessions whose Ctrl release came before hold_threshold_ms

svars == <<s_held, s_ctrl_pressed, s_is_recording, s_recording_started, s_audio_recorder,
           s_recorders, s_threads, s_keys, s_nkeys, s_session, s_last, s_hold, s_short>>

VARIABLES
    \* ---- one AudioRecorder driven through its own methods
    r_rec,           \* the AudioRecorder object
    r_ret,           \* what the latest stop_recording returned (None before any)
    r_calls,         \* number of start_recording / stop_recording calls made
    r_last,          \* what the latest step did
    r_pc,            \* where the capture thread is in _record_audio
    r_uses           \* the calls the capture thread made on the device handle

rvars == <<r_rec, r_ret, r_calls, r_last, r_pc, r_uses>>

VARIABLES
    \* ---- the process started by main() or main_daemon() (src/src/blurt/main.py)
    m_pc,            \* where the main thread is
    m_entry,         \* "main" or "main_daemon"
    m_help,          \* sys.argv[1] is -h or --help
    m_display,       \* os.environ has DISPLAY
    m_model,         \* config.model_path: "present", "missing" or "downloaded" by this run
    m_coro,          \* the coroutine object of HotkeyHandler.start(): "none" or "created"
    m_monitor,       \* the X11 monitor thread has been started
    m_interrupted,   \* a KeyboardInterrupt has been delivered
    m_vosk,          \* SpeechRecognizer.model: "none", "loaded", or "failed" to load
    m_exc,           \* the exception that left Blurt() or run(): "none" if none did
    m_exit           \* how the process ended: "none" while it has not

mvars == <<m_pc, m_entry, m_help, m_display, m_model, m_coro, m_monitor, m_interrupted,
           m_vosk, m_exc, m_exit>>

VARIABLES
    \* ---- one call of SpeechRecognizer.recognize (src/src/blurt/speech_recognizer.py)
    v_pc,            \* "idle", "loop", "final" or "returned"
    v_model,         \* self.model is set
    v_frames,        \* frames in the WAV handed to recognize
    v_left,          \* frames wav_file has not handed out yet
    v_log,           \* the AcceptWaveform calls made: frames given, offset, engine's answer
    v_final,         \* the result of FinalResult once it was called, else empty
    v_ret            \* what recognize returned once it has, else empty

vvars == <<v_pc, v_model, v_frames, v_left, v_log, v_final, v_ret>>

VARIABLES
    \* ---- the WAV container stop_recording builds (src/src/blurt/audio_recorder.py)
    w_samples,       \* len(self.recording): the int16 samples captured
    w_channels,      \* config.channels
    w_header         \* the sizes in the header of the WAV returned

wvars == <<w_samples, w_channels, w_header>>

VARIABLES
    \* ---- BlurtCLI commands against the PID file and the process table
    \* (src/src/blurt/cli.py)
    c_file,          \* the PID file: absent, unparseable, or holding a number
    c_procs,         \* every PID: "dead", "child" (forked by start), "daemon"
                     \* (forked by _daemonize) or "foreign" (another user's process)
    c_cmd,           \* the method called last
    c_calls,         \* what that call did: fork, kill, write and unlink, in order
    c_result,        \* how that call ended
    c_n              \* number of calls made

cvars == <<c_file, c_procs, c_cmd, c_calls, c_result, c_n>>

VARIABLES
    \* ---- SoundPlayer._play_sound (src/src/blurt/sound_player.py)
    p_threads,       \* the play_async threads started so far
    p_caller,        \* how the latest _play_sound call ended for its caller
    p_exists,        \* whether the sound file existed at the latest call
    p_n              \* number of _play_sound calls made

pvars == <<p_threads, p_caller, p_exists, p_n>>

vars == <<hvars, tvars, svars, rvars, mvars, vvars, wvars, cvars, pvars>>

\* the variables an action of one part leaves alone
other_than_hvars == <<tvars, svars, rvars, mvars, vvars, wvars, cvars, pvars>>
other_than_tvars == <<hvars, svars, rvars, mvars, vvars, wvars, cvars, pvars>>
other_than_svars == <<hvars, tvars, rvars, mvars, vvars, wvars, cvars, pvars>>
other_than_rvars == <<hvars, tvars, svars, mvars, vvars, wvars, cvars, pvars>>
other_than_mvars == <<hvars, tvars, svars, rvars, vvars, wvars, cvars, pvars>>
other_than_vvars == <<hvars, tvars, svars, rvars, mvars, wvars, cvars, pvars>>
other_than_wvars == <<hvars, tvars, svars, rvars, mvars, vvars, cvars, pvars>>
other_than_cvars == <<hvars, tvars, svars, rvars, mvars, vvars, wvars, pvars>>
other_than_pvars == <<hvars, tvars, svars, rvars, mvars, vvars, wvars, cvars>>

-----------------------------------------------------------------------------
\* Bounds of the model
MaxTime    == 4     \* the clock stops here
MaxEvents  == 4     \* X events delivered to the monitor
MaxPresses == 2     \* accepted presses (so at most that many AudioRecorders)
MaxFrames  == 1     \* frames a capture thread appends before it only spins
TickMs     == 400   \* milliseconds per tick
MaxTextLen == 3     \* length of a recognised text
MaxKeys    == 6     \* key events delivered to the pynput listener
MaxSessions == 2    \* sessions SimpleHotkeyHandler starts
MaxChunks  == 2     \* full chunks in the longest audio given to recognize
MaxReads   == 64    \* PvRecorder frames in the recording turned into a WAV
MaxChannels == 2    \* config.channels
MaxPlays   == 2     \* _play_sound calls
MaxPid     == 3     \* process IDs in the process table
MaxCommands == 3    \* BlurtCLI methods called
MaxCalls   == 4     \* start_recording / stop_recording calls on the lone AudioRecorder

\* Program constants
target_keycode    == 65     \* Space
hold_threshold_ms == 400
post_release_ms   == 300
read_frames       == 4096   \* wav_file.readframes(4096)
frame_length      == 512    \* PvRecorder(frame_length=512)
sample_width      == 2      \* wav_file.setsampwidth(2)

None == -1

\* some key that is not the target
other_keycode == target_keycode + 1

-----------------------------------------------------------------------------
\* Text: a string is a sequence of characters
Whitespace == {" ", "\t"}

RECURSIVE LStrip(_)
LStrip(s) == IF s # <<>> /\ Head(s) \in Whitespace THEN LStrip(Tail(s)) ELSE s

RECURSIVE RStrip(_)
RStrip(s) ==
    IF s # <<>> /\ s[Len(s)] \in Whitespace THEN RStrip(SubSeq(s, 1, Len(s) - 1)) ELSE s

\* str.strip()
Strip(s) == RStrip(LStrip(s))

\* variant: the text is stripped before it is typed
type_text_Stripped(text) == Strip(text)

\* variant: the blank-text guard dropped
type_text_Unguarded(text) == text

\* TextOutput.type_text: the keyboard.type calls it makes, in order
type_text(text) == IF Strip(text) = <<>> THEN <<>> ELSE text

\* Blurt._on_voice_text after recognize returned text: is type_text called?
CallsTypeText(text) == Strip(text) # <<>>

-----------------------------------------------------------------------------
\* AudioRecorder

\* AudioRecorder.__init__
NewRecorder(p, r) ==
    [is_recording |-> FALSE, recorder |-> "None", record_thread |-> "None",
     recording |-> 0, device |-> "unopened", failed |-> FALSE,
     press |-> p, run |-> r, ops |-> <<>>]

\* AudioRecorder.start_recording; opened = PvRecorder(...) succeeded
start_recording(rec, opened) ==
    IF opened
    THEN [rec EXCEPT !.recording = 0, !.is_recording = TRUE, !.recorder = "handle",
                     !.device = "open", !.record_thread = "running",
                     !.ops = Append(@, "start")]
    ELSE [rec EXCEPT !.recording = 0, !.is_recording = TRUE, !.failed = TRUE,
                     !.ops = Append(@, "start")]

\* variant: the device is released only when the capture thread was joined
stop_recording_KeepsDeviceOnTimeout(rec, joined) ==
    [rec EXCEPT !.is_recording = FALSE,
                !.record_thread = IF @ = "running" /\ joined THEN "finished" ELSE @,
                !.device = IF rec.recorder = "handle" /\ joined THEN "deleted" ELSE @,
                !.recorder = IF joined THEN "None" ELSE @,
                !.ops = Append(@, "stop")]

\* AudioRecorder.stop_recording; joined = the capture thread ended within the join
stop_recording(rec, joined) ==
    [rec EXCEPT !.is_recording = FALSE,
                !.record_thread = IF @ = "running" /\ joined THEN "finished" ELSE @,
                !.device = IF rec.recorder = "handle" THEN "deleted" ELSE @,
                !.recorder = "None",
                !.ops = Append(@, "stop")]

\* the bytes stop_recording returns: 0 for b"", else the number of frames in the WAV
StoppedAudio(rec) == rec.recording

\* a recorder whose capture loop is running and has not been told to stop
Capturing(rec) == rec.record_thread = "running" /\ rec.is_recording

\* AudioRecorder._record_audio, one pass of the loop body
CaptureRead(i) ==
    /\ i \in 1..Len(recorders)
    /\ recorders[i].record_thread = "running"
    /\ recorders[i].is_recording
    /\ recorders[i].recording < MaxFrames
    /\ recorders' = [recorders EXCEPT ![i].recording = @ + 1]
    /\ UNCHANGED <<now, is_recording, press_time, audio_recorder, ready, sleeping,
                   event, last, nevents, npress, short_released, long_released,
                   stopped_for, callback_for, run_id, run_presses, run_idle, keystrokes>>
    /\ UNCHANGED process
    /\ UNCHANGED other_than_hvars

\* AudioRecorder._record_audio leaving the loop after is_recording was cleared
CaptureExit(i) ==
    /\ i \in 1..Len(recorders)
    /\ recorders[i].record_thread = "running"
    /\ ~recorders[i].is_recording
    /\ recorders' = [recorders EXCEPT ![i].record_thread = "finished"]
    /\ UNCHANGED <<now, is_recording, press_time, audio_recorder, ready, sleeping,
                   event, last, nevents, npress, short_released, long_released,
                   stopped_for, callback_for, run_id, run_presses, run_idle, keystrokes>>
    /\ UNCHANGED process
    /\ UNCHANGED other_than_hvars

-----------------------------------------------------------------------------
\* HotkeyHandler._monitor_keys

\* event.detail == space_keycode and event.state & ctrl_modifier
Qualifies(e) == e.detail = target_keycode /\ e.ctrl

\* variant: the threshold comparison dropped
DurationMet_NoThreshold(dur) == dur * TickMs >= 0

\* press_duration >= hold_threshold_ms / 1000
DurationMet(dur) == dur * TickMs >= hold_threshold_ms

\* variant: the sleep returns at once
SleepOver_NoWait(since) == now >= since

\* asyncio.sleep(post_release_ms / 1000) started at time since has elapsed
SleepOver(since) == (now - since) * TickMs >= post_release_ms

\* milliseconds from time t to now
HeldMs(t) == (now - t) * TickMs

Quiescent == ready = <<>> /\ sleeping = <<>>

Events == [type : {"KeyPress", "KeyRelease"},
           detail : {target_keycode, other_keycode},
           ctrl : BOOLEAN]

\* the KeyPress branch
MonitorPress(e) ==
    /\ e.type = "KeyPress"
    /\ IF Qualifies(e)
       THEN /\ run_presses' = run_presses + 1
            /\ run_idle' = IF run_presses = 0 THEN ~is_recording /\ Quiescent ELSE run_idle
            /\ IF ~is_recording
               THEN /\ npress < MaxPresses
                    /\ press_time' = now
                    /\ npress' = npress + 1
                    /\ ready' = Append(ready, [co |-> "keypress", press |-> npress + 1,
                                               run |-> run_id])
                    /\ last' = "press_accepted"
               ELSE /\ last' = "press_ignored"
                    /\ UNCHANGED <<press_time, npress, ready>>
       ELSE /\ last' = "event_ignored"
            /\ UNCHANGED <<press_time, npress, ready, run_presses, run_idle>>
    /\ UNCHANGED <<short_released, long_released, run_id>>

\* the KeyRelease branch
MonitorRelease(e) ==
    /\ e.type = "KeyRelease"
    /\ IF Qualifies(e)
       THEN /\ run_id' = run_id + 1
            /\ run_presses' = 0
            /\ run_idle' = FALSE
            /\ IF press_time # None
               THEN /\ IF DurationMet(now - press_time)
                       THEN /\ ready' = Append(ready, [co |-> "keyrelease", press |-> npress,
                                                      run |-> run_id])
                            /\ last' = "release_scheduled"
                       ELSE /\ last' = "release_too_short"
                            /\ UNCHANGED ready
                    /\ IF HeldMs(press_time) < hold_threshold_ms
                       THEN /\ short_released' = short_released \cup {npress}
                            /\ UNCHANGED long_released
                       ELSE /\ long_released' = long_released \cup {npress}
                            /\ UNCHANGED short_released
                    /\ press_time' = None
               ELSE /\ last' = "release_no_press_time"
                    /\ UNCHANGED <<press_time, ready, short_released, long_released>>
       ELSE /\ last' = "event_ignored"
            /\ UNCHANGED <<press_time, ready, short_released, long_released,
                           run_id, run_presses, run_idle>>
    /\ UNCHANGED npress

\* one pass of the while loop of _monitor_keys
MonitorKeys ==
    /\ process = "running"
    /\ nevents < MaxEvents
    /\ \E e \in Events :
          /\ event' = e
          /\ nevents' = nevents + 1
          /\ MonitorPress(e) \/ MonitorRelease(e)
    /\ UNCHANGED <<now, is_recording, audio_recorder, recorders, sleeping,
                   stopped_for, callback_for, keystrokes>>
    /\ UNCHANGED process
    /\ UNCHANGED other_than_hvars

-----------------------------------------------------------------------------
\* the clock; it is read only as a difference from press_time or from the start
\* of a sleep, so it advances only while one of them is pending
Tick ==
    /\ process = "running"
    /\ now < MaxTime
    /\ press_time # None \/ sleeping # <<>>
    /\ now' = now + 1
    /\ UNCHANGED <<is_recording, press_time, audio_recorder, recorders, ready, sleeping,
                   event, last, nevents, npress, short_released, long_released,
                   stopped_for, callback_for, run_id, run_presses, run_idle, keystrokes>>
    /\ UNCHANGED process
    /\ UNCHANGED other_than_hvars

-----------------------------------------------------------------------------
\* Blurt._on_voice_text once recognize has returned text: the keystrokes typed
on_voice_text(text) == IF CallsTypeText(text) THEN type_text(text) ELSE <<>>

\* what speech_recognizer.recognize hands back to _on_voice_text in a session
CallbackTexts == {<<>>, <<" ">>, <<"a">>}

-----------------------------------------------------------------------------
\* HotkeyHandler._handle_keypress

\* variant: the coroutine does not look at is_recording again
HandleKeypressStarts_Unguarded == TRUE

\* if not self.is_recording
HandleKeypressStarts == ~is_recording

handle_keypress ==
    /\ process = "running"
    /\ ready # <<>>
    /\ Head(ready).co = "keypress"
    /\ ready' = Tail(ready)
    /\ IF HandleKeypressStarts
       THEN \E opened \in BOOLEAN :
               /\ is_recording' = TRUE
               /\ recorders' = Append(recorders,
                      start_recording(NewRecorder(Head(ready).press, Head(ready).run), opened))
               /\ audio_recorder' = Len(recorders) + 1
               /\ last' = IF opened THEN "keypress_started" ELSE "keypress_start_raised"
       ELSE /\ last' = "keypress_noop"
            /\ UNCHANGED <<is_recording, recorders, audio_recorder>>
    /\ UNCHANGED <<now, press_time, sleeping, event, nevents, npress, short_released,
                   long_released, stopped_for, callback_for, run_id, run_presses,
                   run_idle, keystrokes>>
    /\ UNCHANGED process
    /\ UNCHANGED other_than_hvars

\* HotkeyHandler._handle_keyrelease up to the await of asyncio.sleep
handle_keyrelease ==
    /\ process = "running"
    /\ ready # <<>>
    /\ Head(ready).co = "keyrelease"
    /\ ready' = Tail(ready)
    /\ IF is_recording
       THEN /\ is_recording' = FALSE
            /\ IF audio_recorder # 0
               THEN /\ sleeping' = Append(sleeping, [since |-> now, press |-> Head(ready).press,
                                                     run |-> Head(ready).run])
                    /\ last' = "keyrelease_draining"
               ELSE /\ last' = "keyrelease_no_recorder"
                    /\ UNCHANGED sleeping
       ELSE /\ last' = "keyrelease_noop"
            /\ UNCHANGED <<is_recording, sleeping>>
    /\ UNCHANGED <<now, press_time, audio_recorder, recorders, event, nevents, npress,
                   short_released, long_released, stopped_for, callback_for, run_id,
                   run_presses, run_idle, keystrokes>>
    /\ UNCHANGED process
    /\ UNCHANGED other_than_hvars

\* HotkeyHandler._handle_keyrelease from the end of the sleep: stop_recording on the
\* recorder self.audio_recorder names now, then on_voice_callback(audio_data), which
\* is Blurt._on_voice_text: recognize, then type_text when the text is not blank.
\* recognize raises on b"" (wave.open finds no header) and may raise otherwise;
\* keyboard.type may raise.
handle_keyrelease_resume ==
    /\ process = "running"
    /\ sleeping # <<>>
    /\ SleepOver(Head(sleeping).since)
    /\ sleeping' = Tail(sleeping)
    /\ \E joined \in BOOLEAN, recognized \in {"raises", "returns"},
          text \in CallbackTexts, typed \in {"raises", "returns"} :
          LET i       == audio_recorder
              stopped == stop_recording(recorders[i], joined)
              audio   == StoppedAudio(stopped)
              raised  == recognized = "raises" \/ audio = 0
          IN  /\ joined \/ recorders[i].record_thread = "running"
              /\ recorders' = [recorders EXCEPT ![i] =
                                  [stopped EXCEPT !.ops = Append(@, "recognize")]]
              /\ IF raised
                 THEN /\ last' = "callback_recognize_raised"
                      /\ keystrokes' = <<>>
                 ELSE IF ~CallsTypeText(text)
                 THEN /\ last' = "callback_no_text"
                      /\ keystrokes' = <<>>
                 ELSE IF typed = "raises"
                 THEN /\ last' = "callback_type_raised"
                      /\ keystrokes' = <<>>
                 ELSE /\ last' = "callback_typed"
                      /\ keystrokes' = on_voice_text(text)
    /\ stopped_for' = stopped_for \cup {Head(sleeping).press}
    /\ callback_for' = callback_for \cup {Head(sleeping).press}
    /\ UNCHANGED <<now, is_recording, press_time, audio_recorder, ready, event, nevents,
                   npress, short_released, long_released, run_id, run_presses, run_idle>>
    /\ UNCHANGED process
    /\ UNCHANGED other_than_hvars

-----------------------------------------------------------------------------
\* Blurt.run: except KeyboardInterrupt: sys.exit(0).  The loop stops and the
\* interpreter starts to exit; no recorder is told anything.
Interrupt ==
    /\ process = "running"
    /\ process' = "exiting"
    /\ last' = "interrupted"
    /\ UNCHANGED <<now, is_recording, press_time, audio_recorder, recorders, ready,
                   sleeping, event, nevents, npress, short_released, long_released,
                   stopped_for, callback_for, run_id, run_presses, run_idle, keystrokes>>
    /\ UNCHANGED other_than_hvars

\* the interpreter exits once no non-daemon thread is alive; the capture thread of
\* AudioRecorder is created without daemon=True
ProcessExit ==
    /\ process = "exiting"
    /\ \A i \in 1..Len(recorders) : recorders[i].record_thread # "running"
    /\ process' = "terminated"
    /\ UNCHANGED <<now, is_recording, press_time, audio_recorder, recorders, ready,
                   sleeping, event, last, nevents, npress, short_released, long_released,
                   stopped_for, callback_for, run_id, run_presses, run_idle, keystrokes>>
    /\ UNCHANGED other_than_hvars

-----------------------------------------------------------------------------
\* Blurt._on_voice_text and TextOutput.type_text, each called with any short text

Chars == Whitespace \cup {"a", "b"}

RECURSIVE Texts(_)
Texts(n) == IF n = 0 THEN {<<>>}
            ELSE Texts(n - 1) \cup {Append(t, c) : t \in Texts(n - 1), c \in Chars}

\* Blurt._on_voice_text with speech_recognizer.recognize returning text
VoiceText ==
    /\ \E text \in Texts(MaxTextLen) :
          /\ t_text' = text
          /\ t_type_text' = IF CallsTypeText(text) THEN 1 ELSE 0
          /\ t_keys' = on_voice_text(text)
    /\ t_entry' = "_on_voice_text"
    /\ UNCHANGED other_than_tvars

\* TextOutput.type_text(text)
TypeText ==
    /\ \E text \in Texts(MaxTextLen) :
          /\ t_text' = text
          /\ t_keys' = type_text(text)
    /\ t_type_text' = 1
    /\ t_entry' = "type_text"
    /\ UNCHANGED other_than_tvars

-----------------------------------------------------------------------------
\* SimpleAudioRecorder (src/src/blurt/simple_audio.py)

\* SimpleAudioRecorder.__init__
NewSimpleRecorder(session) ==
    [is_recording |-> FALSE, recorder |-> "None", record_thread |-> "None",
     recording |-> 0, device |-> "unopened", session |-> session, ops |-> <<>>]

\* SimpleAudioRecorder.start_recording; a failure to open the device is printed, not raised
simple_start_recording(rec, opened) ==
    IF opened
    THEN [rec EXCEPT !.recording = 0, !.is_recording = TRUE, !.recorder = "handle",
                     !.device = "open", !.record_thread = "running",
                     !.ops = Append(@, "start")]
    ELSE [rec EXCEPT !.recording = 0, !.is_recording = TRUE, !.ops = Append(@, "start")]

\* SimpleAudioRecorder.stop_recording
simple_stop_recording(rec, joined) ==
    [rec EXCEPT !.is_recording = FALSE,
                !.record_thread = IF @ = "running" /\ joined THEN "finished" ELSE @,
                !.device = IF rec.recorder = "handle" THEN "deleted" ELSE @,
                !.recorder = "None",
                !.ops = Append(@, "stop")]

-----------------------------------------------------------------------------
\* SimpleHotkeyHandler (src/src/tab_voice/simple_hotkey.py)

Keys == {"ctrl_l", "ctrl_r", "space"}

\* key == keyboard.Key.ctrl_l or key == keyboard.Key.ctrl_r
IsCtrl(k) == k \in {"ctrl_l", "ctrl_r"}

SimpleTexts == {<<>>, <<"a", "b">>}

NewThread(kind, pc, session) ==
    [kind |-> kind, pc |-> pc, session |-> session, text |-> <<>>, pos |-> 0,
     recognize |-> FALSE]

Threads == 1..Len(s_threads)

\* a _stop_recording thread that has not returned yet
StopRunning(t) == s_threads[t].kind = "stop" /\ s_threads[t].pc # "done"

\* SimpleHotkeyHandler._on_key_press; a held key repeats its press
on_key_press(k) ==
    /\ s_nkeys < MaxKeys
    /\ s_nkeys' = s_nkeys + 1
    /\ s_held' = s_held \cup {k}
    /\ LET ctrl == IF IsCtrl(k) THEN TRUE ELSE s_ctrl_pressed
       IN  /\ s_ctrl_pressed' = ctrl
           /\ IF k = "space" /\ ctrl /\ ~s_is_recording
              THEN /\ s_session < MaxSessions
                   /\ s_is_recording' = TRUE
                   /\ s_recording_started' = TRUE
                   /\ s_session' = s_session + 1
                   /\ s_threads' = Append(s_threads, NewThread("start", "create", s_session + 1))
                   /\ s_last' = "press_started"
                   /\ s_hold' = 0
              ELSE /\ s_last' = "press_ignored"
                   /\ UNCHANGED <<s_is_recording, s_recording_started, s_session, s_threads,
                                  s_hold>>
    /\ UNCHANGED <<s_audio_recorder, s_recorders, s_keys, s_short>>
    /\ UNCHANGED other_than_svars

\* variant: any key's release ends the session
ReleaseStops_AnyKey(k) == s_is_recording

\* (key == ctrl_l or key == ctrl_r) and self.is_recording
ReleaseStops(k) == IsCtrl(k) /\ s_is_recording

\* SimpleHotkeyHandler._on_key_release
on_key_release(k) ==
    /\ s_nkeys < MaxKeys
    /\ k \in s_held
    /\ s_nkeys' = s_nkeys + 1
    /\ s_held' = s_held \ {k}
    /\ IF ReleaseStops(k)
       THEN /\ s_is_recording' = FALSE
            /\ s_recording_started' = FALSE
            /\ s_threads' = Append(s_threads, NewThread("stop", "hasattr", s_session))
            /\ s_last' = "release_stopped"
            /\ s_short' = IF s_hold * TickMs < hold_threshold_ms
                          THEN s_short \cup {s_session} ELSE s_short
       ELSE /\ s_last' = "release_ignored"
            /\ UNCHANGED <<s_is_recording, s_recording_started, s_threads, s_short>>
    /\ s_ctrl_pressed' = IF IsCtrl(k) THEN FALSE ELSE s_ctrl_pressed
    /\ UNCHANGED <<s_audio_recorder, s_recorders, s_keys, s_session, s_hold>>
    /\ UNCHANGED other_than_svars

\* _start_recording: self.audio_recorder = SimpleAudioRecorder(self.config)
StartCreate(t) ==
    /\ t \in Threads
    /\ s_threads[t].kind = "start" /\ s_threads[t].pc = "create"
    /\ s_recorders' = Append(s_recorders, NewSimpleRecorder(s_threads[t].session))
    /\ s_audio_recorder' = Len(s_recorders) + 1
    /\ s_threads' = [s_threads EXCEPT ![t].pc = "start"]
    /\ UNCHANGED <<s_held, s_ctrl_pressed, s_is_recording, s_recording_started, s_keys,
                   s_nkeys, s_session, s_last>>
    /\ UNCHANGED <<s_hold, s_short>>
    /\ UNCHANGED other_than_svars

\* _start_recording: self.audio_recorder.start_recording()
StartStart(t) ==
    /\ t \in Threads
    /\ s_threads[t].kind = "start" /\ s_threads[t].pc = "start"
    /\ \E opened \in BOOLEAN :
          s_recorders' = [s_recorders EXCEPT ![s_audio_recorder] =
                             simple_start_recording(@, opened)]
    /\ s_threads' = [s_threads EXCEPT ![t].pc = "done"]
    /\ UNCHANGED <<s_held, s_ctrl_pressed, s_is_recording, s_recording_started,
                   s_audio_recorder, s_keys, s_nkeys, s_session, s_last>>
    /\ UNCHANGED <<s_hold, s_short>>
    /\ UNCHANGED other_than_svars

\* _stop_recording: if hasattr(self, 'audio_recorder')
StopCheck(t) ==
    /\ t \in Threads
    /\ s_threads[t].kind = "stop" /\ s_threads[t].pc = "hasattr"
    /\ s_threads' = [s_threads EXCEPT ![t].pc = IF s_audio_recorder # 0 THEN "sleep" ELSE "done"]
    /\ UNCHANGED <<s_held, s_ctrl_pressed, s_is_recording, s_recording_started,
                   s_audio_recorder, s_recorders, s_keys, s_nkeys, s_session, s_last>>
    /\ UNCHANGED <<s_hold, s_short>>
    /\ UNCHANGED other_than_svars

\* _stop_recording: time.sleep(post_release_ms / 1000) returns
StopWake(t) ==
    /\ t \in Threads
    /\ s_threads[t].kind = "stop" /\ s_threads[t].pc = "sleep"
    /\ s_threads' = [s_threads EXCEPT ![t].pc = "stop"]
    /\ UNCHANGED <<s_held, s_ctrl_pressed, s_is_recording, s_recording_started,
                   s_audio_recorder, s_recorders, s_keys, s_nkeys, s_session, s_last>>
    /\ UNCHANGED <<s_hold, s_short>>
    /\ UNCHANGED other_than_svars

\* _stop_recording: audio_data = self.audio_recorder.stop_recording(); if audio_data
StopStop(t) ==
    /\ t \in Threads
    /\ s_threads[t].kind = "stop" /\ s_threads[t].pc = "stop"
    /\ \E joined \in BOOLEAN :
          /\ joined \/ s_recorders[s_audio_recorder].record_thread = "running"
          /\ s_recorders' = [s_recorders EXCEPT ![s_audio_recorder] =
                                simple_stop_recording(@, joined)]
    /\ s_threads' = [s_threads EXCEPT ![t].pc =
                        IF s_recorders[s_audio_recorder].recording # 0
                        THEN "recognize" ELSE "done"]
    /\ UNCHANGED <<s_held, s_ctrl_pressed, s_is_recording, s_recording_started,
                   s_audio_recorder, s_keys, s_nkeys, s_session, s_last>>
    /\ UNCHANGED <<s_hold, s_short>>
    /\ UNCHANGED other_than_svars

\* _stop_recording: SpeechRecognizer(self.config) built, recognize(audio_data) entered
StopRecognizeCall(t) ==
    /\ t \in Threads
    /\ s_threads[t].kind = "stop" /\ s_threads[t].pc = "recognize"
    /\ s_threads' = [s_threads EXCEPT ![t].pc = "recognizing", ![t].recognize = TRUE]
    /\ UNCHANGED <<s_held, s_ctrl_pressed, s_is_recording, s_recording_started,
                   s_audio_recorder, s_recorders, s_keys, s_nkeys, s_session, s_last>>
    /\ UNCHANGED <<s_hold, s_short>>
    /\ UNCHANGED other_than_svars

\* _stop_recording: text = recognizer.recognize(audio_data) returns; if text.strip()
StopRecognize(t) ==
    /\ t \in Threads
    /\ s_threads[t].kind = "stop" /\ s_threads[t].pc = "recognizing"
    /\ \E raised \in BOOLEAN, text \in SimpleTexts :
          s_threads' = [s_threads EXCEPT
                           ![t].pc = IF ~raised /\ Strip(text) # <<>> THEN "type" ELSE "done",
                           ![t].text = IF raised THEN <<>> ELSE text]
    /\ UNCHANGED <<s_held, s_ctrl_pressed, s_is_recording, s_recording_started,
                   s_audio_recorder, s_recorders, s_keys, s_nkeys, s_session, s_last>>
    /\ UNCHANGED <<s_hold, s_short>>
    /\ UNCHANGED other_than_svars

\* _stop_recording: text_output.type_text(text), one keyboard.type call
StopType(t) ==
    /\ t \in Threads
    /\ s_threads[t].kind = "stop" /\ s_threads[t].pc = "type"
    /\ LET th == s_threads[t]
       IN  /\ s_keys' = Append(s_keys, <<th.session, th.text[th.pos + 1]>>)
           /\ s_threads' = [s_threads EXCEPT
                               ![t].pos = th.pos + 1,
                               ![t].pc = IF th.pos + 1 = Len(th.text) THEN "done" ELSE "type"]
    /\ UNCHANGED <<s_held, s_ctrl_pressed, s_is_recording, s_recording_started,
                   s_audio_recorder, s_recorders, s_nkeys, s_session, s_last>>
    /\ UNCHANGED <<s_hold, s_short>>
    /\ UNCHANGED other_than_svars

\* SimpleAudioRecorder._record_audio, one pass of the loop body
SimpleCaptureRead(i) ==
    /\ i \in 1..Len(s_recorders)
    /\ s_recorders[i].record_thread = "running"
    /\ s_recorders[i].is_recording
    /\ s_recorders[i].recording < MaxFrames
    /\ s_recorders' = [s_recorders EXCEPT ![i].recording = @ + 1]
    /\ UNCHANGED <<s_held, s_ctrl_pressed, s_is_recording, s_recording_started,
                   s_audio_recorder, s_threads, s_keys, s_nkeys, s_session, s_last>>
    /\ UNCHANGED <<s_hold, s_short>>
    /\ UNCHANGED other_than_svars

\* SimpleAudioRecorder._record_audio leaving the loop
SimpleCaptureExit(i) ==
    /\ i \in 1..Len(s_recorders)
    /\ s_recorders[i].record_thread = "running"
    /\ ~s_recorders[i].is_recording
    /\ s_recorders' = [s_recorders EXCEPT ![i].record_thread = "finished"]
    /\ UNCHANGED <<s_held, s_ctrl_pressed, s_is_recording, s_recording_started,
                   s_audio_recorder, s_threads, s_keys, s_nkeys, s_session, s_last>>
    /\ UNCHANGED <<s_hold, s_short>>
    /\ UNCHANGED other_than_svars

\* time passing while Ctrl+Space is held; it is counted only up to the threshold
SimpleTick ==
    /\ s_is_recording
    /\ s_hold * TickMs < hold_threshold_ms
    /\ s_hold' = s_hold + 1
    /\ UNCHANGED <<s_held, s_ctrl_pressed, s_is_recording, s_recording_started,
                   s_audio_recorder, s_recorders, s_threads, s_keys, s_nkeys, s_session,
                   s_last, s_short>>
    /\ UNCHANGED other_than_svars

-----------------------------------------------------------------------------
\* AudioRecorder called directly (src/src/blurt/audio_recorder.py)

\* the handle uses of the capture thread: <<method, state of the device at the call>>
HandleUse(op) == <<op, r_rec.device>>

\* await recorder.start_recording(), the capture thread of an earlier start gone
RecStart ==
    /\ r_calls < MaxCalls
    /\ r_pc # "crashed"
    /\ r_rec.record_thread # "running"
    /\ \E opened \in BOOLEAN :
          /\ r_rec' = start_recording(r_rec, opened)
          /\ r_last' = IF opened THEN "start" ELSE "start_raised"
          /\ r_pc' = IF opened THEN "begin" ELSE r_pc
    /\ r_calls' = r_calls + 1
    /\ UNCHANGED <<r_ret, r_uses>>
    /\ UNCHANGED other_than_rvars

\* await recorder.stop_recording(); the join can time out only on a live thread.
\* A join that succeeds on a live thread has waited for it to leave the loop and
\* run its finally block, which stops the handle before the delete.
RecStop ==
    /\ r_calls < MaxCalls
    /\ r_pc # "crashed"
    /\ \E joined \in BOOLEAN :
          /\ joined \/ r_rec.record_thread = "running"
          /\ r_rec' = stop_recording(r_rec, joined)
          /\ r_ret' = StoppedAudio(stop_recording(r_rec, joined))
          /\ r_last' = IF joined THEN "stop" ELSE "stop_timeout"
          /\ r_pc' = IF joined /\ r_rec.record_thread = "running" THEN "done" ELSE r_pc
          /\ r_uses' = IF joined /\ r_rec.record_thread = "running"
                           /\ r_rec.recorder = "handle"
                       THEN r_uses \cup {HandleUse("stop")} ELSE r_uses
    /\ r_calls' = r_calls + 1
    /\ UNCHANGED other_than_rvars

\* AudioRecorder._record_audio: if self.recorder is not None: self.recorder.start()
RecCaptureBegin ==
    /\ r_rec.record_thread = "running"
    /\ r_pc = "begin"
    /\ IF r_rec.recorder = "handle"
       THEN r_pc' = "loop" /\ r_uses' = r_uses \cup {HandleUse("start")}
       ELSE r_pc' = "finally" /\ UNCHANGED r_uses
    /\ r_last' = "begin"
    /\ UNCHANGED <<r_rec, r_ret, r_calls>>
    /\ UNCHANGED other_than_rvars

\* AudioRecorder._record_audio: while self.is_recording, then into recorder.read(),
\* which blocks until a frame is there
RecCaptureLoop ==
    /\ r_rec.record_thread = "running"
    /\ r_pc = "loop"
    /\ ~r_rec.is_recording \/ r_rec.recording < MaxFrames
    /\ r_pc' = IF r_rec.is_recording THEN "read" ELSE "finally"
    /\ r_last' = "loop"
    /\ UNCHANGED <<r_rec, r_ret, r_calls, r_uses>>
    /\ UNCHANGED other_than_rvars

\* what recorder.read() may do: hand back a frame or raise; on a handle that
\* stop_recording has deleted meanwhile the native call may also take the process down
ReadOutcomes ==
    {"frame", "raises"} \cup (IF r_rec.device = "deleted" THEN {"crash"} ELSE {})

\* AudioRecorder._record_audio: frame = self.recorder.read() comes back and the
\* frame is added to self.recording
RecCaptureRead ==
    /\ r_rec.record_thread = "running"
    /\ r_pc = "read"
    /\ \E outcome \in ReadOutcomes :
          /\ r_rec' = IF outcome = "frame" THEN [r_rec EXCEPT !.recording = @ + 1]
                      ELSE r_rec
          /\ r_pc' = CASE outcome = "frame" -> "loop"
                        [] outcome = "raises" -> "finally"
                        [] outcome = "crash" -> "crashed"
    /\ r_uses' = r_uses \cup {HandleUse("read")}
    /\ r_last' = "read"
    /\ UNCHANGED <<r_ret, r_calls>>
    /\ UNCHANGED other_than_rvars

\* AudioRecorder._record_audio, the finally block: if self.recorder:
\* self.recorder.stop(); the thread ends
RecCaptureExit ==
    /\ r_rec.record_thread = "running"
    /\ r_pc = "finally"
    /\ r_rec' = [r_rec EXCEPT !.record_thread = "finished"]
    /\ r_pc' = "done"
    /\ r_uses' = IF r_rec.recorder = "handle" THEN r_uses \cup {HandleUse("stop")}
                 ELSE r_uses
    /\ r_last' = "exit"
    /\ UNCHANGED <<r_ret, r_calls>>
    /\ UNCHANGED other_than_rvars

-----------------------------------------------------------------------------
\* main(), main_daemon(), Blurt.__init__ and Blurt.run (src/src/blurt/main.py)

\* the process is started: entry point, argv and environment are chosen
MainStart ==
    /\ m_pc = "not_started"
    /\ \E entry \in {"main", "main_daemon"}, help \in BOOLEAN, display \in BOOLEAN,
          model \in {"present", "missing"} :
          /\ m_entry' = entry
          /\ m_help' = help
          /\ m_display' = display
          /\ m_model' = model
    /\ m_pc' = "entry"
    /\ UNCHANGED <<m_coro, m_monitor, m_interrupted, m_exc, m_exit>>
    /\ UNCHANGED m_vosk
    /\ UNCHANGED other_than_mvars

\* main: the -h/--help branch, then the DISPLAY check; main_daemon: the DISPLAY check
MainChecks ==
    /\ m_pc = "entry"
    /\ IF m_entry = "main" /\ m_help
       THEN m_pc' = "exited" /\ m_exit' = "exit0"
       ELSE IF ~m_display
       THEN m_pc' = "exited" /\ m_exit' = "exit1"
       ELSE m_pc' = "config" /\ UNCHANGED m_exit
    /\ UNCHANGED <<m_entry, m_help, m_display, m_model, m_coro, m_monitor, m_interrupted,
                   m_exc>>
    /\ UNCHANGED m_vosk
    /\ UNCHANGED other_than_mvars

\* an exception leaves Blurt() or app.run(): main lets it end the process,
\* main_daemon's except Exception logs it first
Raised(exc) ==
    IF m_entry = "main_daemon"
    THEN m_pc' = "daemon_except" /\ m_exc' = exc /\ UNCHANGED m_exit
    ELSE m_pc' = "exited" /\ m_exc' = exc /\ m_exit' = exc

\* Blurt.__init__: Config() and TextOutput(self.config)
InitConfig ==
    /\ m_pc = "config"
    /\ m_pc' = "load_model"
    /\ UNCHANGED <<m_entry, m_help, m_display, m_model, m_coro, m_monitor, m_interrupted,
                   m_exc, m_exit>>
    /\ UNCHANGED m_vosk
    /\ UNCHANGED other_than_mvars

\* Blurt.__init__: HotkeyHandler(self.config, self._on_voice_text); then app.run()
InitHotkeyHandler ==
    /\ m_pc = "hotkey_handler"
    /\ m_pc' = "run"
    /\ UNCHANGED <<m_entry, m_help, m_display, m_model, m_coro, m_monitor, m_interrupted,
                   m_exc, m_exit>>
    /\ UNCHANGED m_vosk
    /\ UNCHANGED other_than_mvars

\* Blurt.__init__ -> SpeechRecognizer._load_model: if not model_path.exists()
LoadModel ==
    /\ m_pc = "load_model"
    /\ m_pc' = IF m_model = "missing" THEN "download" ELSE "vosk_model"
    /\ UNCHANGED <<m_entry, m_help, m_display, m_model, m_coro, m_monitor, m_interrupted,
                   m_exc, m_exit>>
    /\ UNCHANGED m_vosk
    /\ UNCHANGED other_than_mvars

\* SpeechRecognizer._download_model: urlretrieve and extractall, either may raise
DownloadModel ==
    /\ m_pc = "download"
    /\ \E downloaded \in BOOLEAN :
          IF downloaded
          THEN m_model' = "downloaded" /\ m_pc' = "vosk_model" /\ UNCHANGED <<m_exc, m_exit>>
          ELSE Raised("Exception") /\ UNCHANGED m_model
    /\ UNCHANGED <<m_entry, m_help, m_display, m_coro, m_monitor, m_interrupted>>
    /\ UNCHANGED m_vosk
    /\ UNCHANGED other_than_mvars

\* variant: the failure is printed and construction goes on
LoadFailure_Swallowed == m_pc' = "hotkey_handler" /\ UNCHANGED <<m_exc, m_exit>>

\* SpeechRecognizer._load_model: except Exception as e: print(...); raise
LoadFailure == Raised("Exception")

\* SpeechRecognizer._load_model: vosk.Model(str(model_path)), re-raised on failure
VoskModel ==
    /\ m_pc = "vosk_model"
    /\ \E loaded \in BOOLEAN :
          IF loaded
          THEN /\ m_vosk' = "loaded"
               /\ m_pc' = "hotkey_handler"
               /\ UNCHANGED <<m_exc, m_exit>>
          ELSE /\ m_vosk' = "failed"
               /\ LoadFailure
    /\ UNCHANGED <<m_entry, m_help, m_display, m_model, m_coro, m_monitor, m_interrupted>>
    /\ UNCHANGED other_than_mvars

\* main_daemon: except Exception as e: logging.error(...); raise
DaemonExcept ==
    /\ m_pc = "daemon_except"
    /\ m_pc' = "exited"
    /\ m_exit' = m_exc
    /\ UNCHANGED <<m_entry, m_help, m_display, m_model, m_coro, m_monitor, m_interrupted,
                   m_exc>>
    /\ UNCHANGED m_vosk
    /\ UNCHANGED other_than_mvars

\* Blurt.run: the print, then the try block is entered
RunEnter ==
    /\ m_pc = "run"
    /\ m_pc' = "run_try"
    /\ UNCHANGED <<m_entry, m_help, m_display, m_model, m_coro, m_monitor, m_interrupted,
                   m_exc, m_exit>>
    /\ UNCHANGED m_vosk
    /\ UNCHANGED other_than_mvars

\* Blurt.run: self.hotkey_handler.start().  start is an async def and the call is
\* not awaited: it returns a coroutine object and runs none of start's body, so no
\* monitor thread is started and nothing blocks.
RunStart ==
    /\ m_pc = "run_try"
    /\ m_coro' = "created"
    /\ m_pc' = "run_raise"
    /\ UNCHANGED <<m_entry, m_help, m_display, m_model, m_monitor, m_interrupted, m_exc,
                   m_exit>>
    /\ UNCHANGED m_vosk
    /\ UNCHANGED other_than_mvars

\* Blurt.run: raise RuntimeError("Unexpected exit from infinite loop"); main lets it
\* through, main_daemon logs it and re-raises
RunRaise ==
    /\ m_pc = "run_raise"
    /\ Raised("RuntimeError")
    /\ UNCHANGED <<m_entry, m_help, m_display, m_model, m_coro, m_monitor, m_interrupted>>
    /\ UNCHANGED m_vosk
    /\ UNCHANGED other_than_mvars

\* KeyboardInterrupt in the main thread: inside run's try block it is caught and
\* sys.exit(0) is called; anywhere else nothing catches it (main_daemon catches
\* Exception only)
KeyboardInterrupt ==
    /\ m_pc \notin {"not_started", "exited"}
    /\ m_interrupted' = TRUE
    /\ m_pc' = "exited"
    /\ m_exit' = IF m_pc = "run_try" THEN "exit0" ELSE "KeyboardInterrupt"
    /\ UNCHANGED <<m_entry, m_help, m_display, m_model, m_coro, m_monitor, m_exc>>
    /\ UNCHANGED m_vosk
    /\ UNCHANGED other_than_mvars

-----------------------------------------------------------------------------
\* SpeechRecognizer.recognize (src/src/blurt/speech_recognizer.py)

\* the results the engine may give: with no text field, or with one
EngineResults ==
    {[has_text |-> FALSE, text |-> <<>>]}
        \cup {[has_text |-> TRUE, text |-> t] :
                 t \in {<<>>, <<" ">>, <<"a">>, <<" ", "a", " ">>}}

\* the audio lengths tried: around every multiple of the chunk size
AudioFrames ==
    {k * read_frames + d : k \in 0..(MaxChunks - 1), d \in {0, 1, read_frames - 1}}
        \cup {MaxChunks * read_frames}

\* variant: the whole rest of the file in one read
ReadSize_Whole(left) == left

\* len(wav_file.readframes(4096)) in frames
ReadSize(left) == IF left < read_frames THEN left ELSE read_frames

\* variant: a result counts only when its stripped text is not empty
ResultHasText_Stripped(result) == result.has_text /\ Strip(result.text) # <<>>

\* result.get('text') is truthy
ResultHasText(result) == result.has_text /\ result.text # <<>>

\* final_result.get('text', '').strip()
FinalText(result) == IF result.has_text THEN Strip(result.text) ELSE Strip(<<>>)

\* recognize(audio_data) is called: if not self.model: return ""; else the
\* recognizer is created and the WAV opened
RecognizeCall ==
    /\ v_pc = "idle"
    /\ \E model \in BOOLEAN, frames \in AudioFrames :
          /\ v_model' = model
          /\ v_frames' = frames
          /\ v_left' = frames
          /\ IF model
             THEN v_pc' = "loop" /\ UNCHANGED v_ret
             ELSE v_pc' = "returned" /\ v_ret' = << <<>> >>
    /\ UNCHANGED <<v_log, v_final>>
    /\ UNCHANGED other_than_vvars

\* one pass of the while loop: readframes(4096), break on no data, AcceptWaveform,
\* and when it is accepted Result(), returned if its text is truthy
RecognizeChunk ==
    /\ v_pc = "loop"
    /\ LET data == ReadSize(v_left)
       IN  IF data = 0
           THEN /\ v_pc' = "final"
                /\ UNCHANGED <<v_left, v_log, v_ret>>
           ELSE /\ v_left' = v_left - data
                /\ \E accepted \in BOOLEAN, result \in EngineResults :
                      /\ v_log' = Append(v_log, [frames |-> data,
                                                 offset |-> v_frames - v_left,
                                                 accepted |-> accepted, result |-> result])
                      /\ IF accepted /\ ResultHasText(result)
                         THEN v_pc' = "returned" /\ v_ret' = <<Strip(result.text)>>
                         ELSE UNCHANGED <<v_pc, v_ret>>
    /\ UNCHANGED <<v_model, v_frames, v_final>>
    /\ UNCHANGED other_than_vvars

\* after the loop: final_result = json.loads(rec.FinalResult())
RecognizeFinal ==
    /\ v_pc = "final"
    /\ \E result \in EngineResults :
          /\ v_final' = <<result>>
          /\ v_ret' = <<FinalText(result)>>
    /\ v_pc' = "returned"
    /\ UNCHANGED <<v_model, v_frames, v_left, v_log>>
    /\ UNCHANGED other_than_vvars

-----------------------------------------------------------------------------
\* the WAV container of AudioRecorder.stop_recording

\* np.array(self.recording, dtype=np.int16).tobytes(): two bytes per sample
PcmBytes(samples) == samples * sample_width

\* wave.open(..., "wb") with setnchannels(channels), setsampwidth(2) and
\* writeframes(data): the data chunk holds the bytes given, the RIFF chunk those and
\* the 36 header bytes after its size field, and the frame count is the bytes
\* divided by the size of one frame
WavHeader(samples, channels) ==
    [data_bytes |-> PcmBytes(samples),
     riff_bytes |-> 36 + PcmBytes(samples),
     nchannels  |-> channels,
     sampwidth  |-> sample_width,
     nframes    |-> PcmBytes(samples) \div (sample_width * channels)]

\* stop_recording with reads frames of frame_length samples in self.recording
BuildWav ==
    /\ \E reads \in 1..MaxReads, channels \in 1..MaxChannels :
          /\ w_samples' = reads * frame_length
          /\ w_channels' = channels
          /\ w_header' = WavHeader(reads * frame_length, channels)
    /\ UNCHANGED other_than_wvars

-----------------------------------------------------------------------------
\* BlurtCLI (src/src/blurt/cli.py)

Pids == 1..MaxPid

AbsentFile == [state |-> "absent", pid |-> 0]
GarbageFile == [state |-> "garbage", pid |-> 0]

\* what the PID file may hold: nothing, text that int() rejects, or a number
FileContents ==
    {AbsentFile, GarbageFile} \cup {[state |-> "pid", pid |-> n] : n \in 0..MaxPid}

\* variant: the write is skipped
write_pid_Skipped(pid) == c_file

\* BlurtCLI._write_pid: the file after self.pid_file.write_text(str(pid))
write_pid(pid) == [state |-> "pid", pid |-> pid]

\* BlurtCLI._get_pid: None without a file or when int() raises
get_pid(file) == IF file.state = "pid" THEN file.pid ELSE None

\* variant: only None counts as no PID
NoPid_NoneOnly(pid) == pid = None

\* "if not pid": None and 0 are both falsy
NoPid(pid) == pid = None \/ pid = 0

\* variant: the process is never found
Kill_NeverFound(procs, pid) == "ProcessLookupError"

\* os.kill(pid, sig) on this process table: delivered, ProcessLookupError, or
\* PermissionError for a process of another user
Kill(procs, pid) ==
    IF pid \notin DOMAIN procs \/ procs[pid] = "dead" THEN "ProcessLookupError"
    ELSE IF procs[pid] = "foreign" THEN "PermissionError"
    ELSE "delivered"

KillCall(pid, sig) == [op |-> "kill", pid |-> pid, sig |-> sig]
ForkCall(pid) == [op |-> "fork", pid |-> pid, sig |-> "-"]
WriteCall(pid) == [op |-> "write", pid |-> pid, sig |-> "-"]
UnlinkCall == [op |-> "unlink", pid |-> 0, sig |-> "-"]

\* variant: a stale PID file is left in place
is_running_KeepsStale(file, procs) ==
    LET pid == get_pid(file)
    IN  IF NoPid(pid)
        THEN [ret |-> "False", file |-> file, calls |-> <<>>]
        ELSE IF Kill(procs, pid) = "delivered"
        THEN [ret |-> "True", file |-> file, calls |-> <<KillCall(pid, "0")>>]
        ELSE [ret |-> "False", file |-> file, calls |-> <<KillCall(pid, "0")>>]

\* BlurtCLI._is_running on this file and process table: what it returns (or that
\* it raised), the file it leaves and the calls it made
is_running(file, procs) ==
    LET pid == get_pid(file)
    IN  IF NoPid(pid)
        THEN [ret |-> "False", file |-> file, calls |-> <<>>]
        ELSE IF Kill(procs, pid) = "delivered"
        THEN [ret |-> "True", file |-> file, calls |-> <<KillCall(pid, "0")>>]
        ELSE IF Kill(procs, pid) = "ProcessLookupError"
        THEN [ret |-> "False", file |-> AbsentFile,
              calls |-> <<KillCall(pid, "0"), UnlinkCall>>]
        ELSE [ret |-> "raised", file |-> file, calls |-> <<KillCall(pid, "0")>>]

\* a call of BlurtCLI._is_running (as status makes)
CliIsRunning ==
    /\ c_n < MaxCommands
    /\ LET r == is_running(c_file, c_procs)
       IN  /\ c_file' = r.file
           /\ c_calls' = r.calls
           /\ c_result' = r.ret
    /\ c_cmd' = "_is_running"
    /\ c_n' = c_n + 1
    /\ UNCHANGED c_procs
    /\ UNCHANGED other_than_cvars

\* BlurtCLI.start as the parent sees it: the _is_running check, then os.fork(),
\* which raises OSError or returns the PID of a new child
CliStart ==
    /\ c_n < MaxCommands
    /\ LET r == is_running(c_file, c_procs)
       IN  IF r.ret = "True"
           THEN /\ c_result' = "already_running"
                /\ c_calls' = r.calls
                /\ UNCHANGED <<c_file, c_procs>>
           ELSE IF r.ret = "raised"
           THEN /\ c_result' = "raised"
                /\ c_calls' = r.calls
                /\ UNCHANGED <<c_file, c_procs>>
           ELSE \/ /\ c_result' = "fork_failed"
                   /\ c_calls' = Append(r.calls, ForkCall(None))
                   /\ c_file' = r.file
                   /\ UNCHANGED c_procs
                \/ \E pid \in Pids :
                      /\ c_procs[pid] = "dead"
                      /\ c_procs' = [c_procs EXCEPT ![pid] = "child"]
                      /\ c_file' = write_pid(pid)
                      /\ c_calls' = r.calls \o <<ForkCall(pid), WriteCall(pid)>>
                      /\ c_result' = "started"
    /\ c_cmd' = "start"
    /\ c_n' = c_n + 1
    /\ UNCHANGED other_than_cvars

\* BlurtCLI.stop
CliStop ==
    /\ c_n < MaxCommands
    /\ LET pid == get_pid(c_file)
       IN  IF NoPid(pid)
           THEN /\ c_result' = "not_running"
                /\ c_calls' = <<>>
                /\ UNCHANGED <<c_file, c_procs>>
           ELSE IF Kill(c_procs, pid) = "delivered"
           THEN /\ c_result' = "stopped"
                /\ c_calls' = <<KillCall(pid, "SIGTERM"), UnlinkCall>>
                /\ c_procs' = [c_procs EXCEPT ![pid] = "dead"]
                /\ c_file' = AbsentFile
           ELSE IF Kill(c_procs, pid) = "ProcessLookupError"
           THEN /\ c_result' = "not_found"
                /\ c_calls' = <<KillCall(pid, "SIGTERM"), UnlinkCall>>
                /\ c_file' = AbsentFile
                /\ UNCHANGED c_procs
           ELSE /\ c_result' = "error"
                /\ c_calls' = <<KillCall(pid, "SIGTERM")>>
                /\ UNCHANGED <<c_file, c_procs>>
    /\ c_cmd' = "stop"
    /\ c_n' = c_n + 1
    /\ UNCHANGED other_than_cvars

\* BlurtCLI._daemonize in the child: setsid, then a second fork; the child leaves
\* with os._exit whether that fork worked (a grandchild goes on as the daemon) or not
Daemonize(pid) ==
    /\ pid \in Pids
    /\ c_procs[pid] = "child"
    /\ \/ c_procs' = [c_procs EXCEPT ![pid] = "dead"]
       \/ \E q \in Pids :
             /\ c_procs[q] = "dead"
             /\ c_procs' = [c_procs EXCEPT ![pid] = "dead", ![q] = "daemon"]
    /\ UNCHANGED <<c_file, c_cmd, c_calls, c_result, c_n>>
    /\ UNCHANGED other_than_cvars

\* the daemon ends by itself: _cleanup_on_exit, registered with atexit, unlinks the
\* PID file
DaemonExits(pid) ==
    /\ pid \in Pids
    /\ c_procs[pid] = "daemon"
    /\ c_procs' = [c_procs EXCEPT ![pid] = "dead"]
    /\ c_file' = AbsentFile
    /\ UNCHANGED <<c_cmd, c_calls, c_result, c_n>>
    /\ UNCHANGED other_than_cvars

\* the surroundings: a PID is taken by a process of another user, or such a
\* process ends
ForeignProcess(pid) ==
    /\ pid \in Pids
    /\ c_procs[pid] \in {"dead", "foreign"}
    /\ c_procs' = [c_procs EXCEPT ![pid] = IF @ = "dead" THEN "foreign" ELSE "dead"]
    /\ UNCHANGED <<c_file, c_cmd, c_calls, c_result, c_n>>
    /\ UNCHANGED other_than_cvars

\* the surroundings: the PID file is left over from earlier, or edited by hand
PidFileFound ==
    /\ c_n = 0
    /\ c_file = AbsentFile
    /\ \E file \in FileContents \ {AbsentFile} : c_file' = file
    /\ UNCHANGED <<c_procs, c_cmd, c_calls, c_result, c_n>>
    /\ UNCHANGED other_than_cvars

-----------------------------------------------------------------------------
\* SoundPlayer (src/src/blurt/sound_player.py)

players == <<"paplay", "aplay", "play", "ffplay">>

\* how one subprocess.run(..., timeout=2, check=True) may end
RunOutcomes ==
    {"ok", "CalledProcessError", "FileNotFoundError", "TimeoutExpired", "OSError"}

\* variant: the loop goes on to the next player after a success as well
TriesNext_AfterSuccess(outcome) == outcome # "OSError"

\* the exceptions after which play_async goes on to the next player
TriesNext(outcome) ==
    outcome \in {"CalledProcessError", "FileNotFoundError", "TimeoutExpired"}

\* variant: a thread is started whether the file exists or not
StartsThread_Always(exists) == TRUE

\* if not sound_file.exists(): return; else the thread is started
StartsThread(exists) == exists

\* SoundPlayer._play_sound(filename): returns right after Thread(...).start()
PlaySound ==
    /\ p_n < MaxPlays
    /\ \E exists \in BOOLEAN :
          /\ p_exists' = exists
          /\ p_threads' = IF StartsThread(exists)
                          THEN Append(p_threads, [daemon |-> TRUE, pc |-> "running",
                                                  player |-> 1, last |-> "none",
                                                  runs |-> <<>>])
                          ELSE p_threads
    /\ p_caller' = "returned"
    /\ p_n' = p_n + 1
    /\ UNCHANGED other_than_pvars

\* play_async: one pass of the loop over players, which runs players[player].  "ok"
\* breaks out of the loop, the three listed exceptions go on to the next player,
\* anything else is caught by the outer except; each of them, or the end of the
\* list, ends the thread.
PlayAsync(t) ==
    /\ t \in 1..Len(p_threads)
    /\ p_threads[t].pc = "running"
    /\ \E outcome \in RunOutcomes :
          p_threads' = [p_threads EXCEPT ![t] =
              IF TriesNext(outcome) /\ p_threads[t].player < Len(players)
              THEN [@ EXCEPT !.player = @ + 1, !.last = outcome,
                             !.runs = Append(@, players[p_threads[t].player])]
              ELSE [@ EXCEPT !.pc = "done", !.last = outcome,
                             !.runs = Append(@, players[p_threads[t].player])]]
    /\ UNCHANGED <<p_caller, p_exists, p_n>>
    /\ UNCHANGED other_than_pvars

-----------------------------------------------------------------------------
HInit ==
    /\ now = 1
    /\ is_recording = FALSE
    /\ press_time = None
    /\ audio_recorder = 0
    /\ recorders = <<>>
    /\ ready = <<>>
    /\ sleeping = <<>>
    /\ event = [type |-> "None", detail |-> 0, ctrl |-> FALSE]
    /\ last = "init"
    /\ nevents = 0
    /\ npress = 0
    /\ short_released = {}
    /\ long_released = {}
    /\ stopped_for = {}
    /\ callback_for = {}
    /\ run_id = 0
    /\ run_presses = 0
    /\ run_idle = FALSE
    /\ keystrokes = <<>>
    /\ process = "running"

TInit ==
    /\ t_entry = "none"
    /\ t_text = <<>>
    /\ t_type_text = 0
    /\ t_keys = <<>>

SInit ==
    /\ s_held = {}
    /\ s_ctrl_pressed = FALSE
    /\ s_is_recording = FALSE
    /\ s_recording_started = FALSE
    /\ s_audio_recorder = 0
    /\ s_recorders = <<>>
    /\ s_threads = <<>>
    /\ s_keys = <<>>
    /\ s_nkeys = 0
    /\ s_session = 0
    /\ s_last = "init"
    /\ s_hold = 0
    /\ s_short = {}

RInit ==
    /\ r_rec = NewRecorder(0, 0)
    /\ r_ret = None
    /\ r_calls = 0
    /\ r_last = "init"
    /\ r_pc = "none"
    /\ r_uses = {}

MInit ==
    /\ m_pc = "not_started"
    /\ m_entry = "main"
    /\ m_help = FALSE
    /\ m_display = FALSE
    /\ m_model = "missing"
    /\ m_coro = "none"
    /\ m_monitor = FALSE
    /\ m_interrupted = FALSE
    /\ m_vosk = "none"
    /\ m_exc = "none"
    /\ m_exit = "none"

VInit ==
    /\ v_pc = "idle"
    /\ v_model = FALSE
    /\ v_frames = 0
    /\ v_left = 0
    /\ v_log = <<>>
    /\ v_final = <<>>
    /\ v_ret = <<>>

WInit ==
    /\ w_samples = 0
    /\ w_channels = 1
    /\ w_header = WavHeader(0, 1)

CInit ==
    /\ c_file = AbsentFile
    /\ c_procs = [pid \in Pids |-> "dead"]
    /\ c_cmd = "none"
    /\ c_calls = <<>>
    /\ c_result = "none"
    /\ c_n = 0

PInit ==
    /\ p_threads = <<>>
    /\ p_caller = "none"
    /\ p_exists = FALSE
    /\ p_n = 0

Init == HInit /\ TInit /\ SInit /\ RInit /\ MInit /\ VInit /\ WInit /\ CInit /\ PInit

\* HotkeyHandler with its recorders and the callback
Next ==
    \/ MonitorKeys
    \/ handle_keypress
    \/ handle_keyrelease
    \/ handle_keyrelease_resume
    \/ \E i \in 1..MaxPresses : CaptureRead(i)
    \/ \E i \in 1..MaxPresses : CaptureExit(i)
    \/ Tick
    \/ Interrupt
    \/ ProcessExit

Spec == Init /\ [][Next]_vars

\* the text path alone
NextText == VoiceText \/ TypeText

SpecText == Init /\ [][NextText]_vars

\* SimpleHotkeyHandler with its worker threads and recorders
NextSimple ==
    \/ \E k \in Keys : on_key_press(k)
    \/ \E k \in Keys : on_key_release(k)
    \/ \E t \in 1..(2 * MaxSessions) : StartCreate(t)
    \/ \E t \in 1..(2 * MaxSessions) : StartStart(t)
    \/ \E t \in 1..(2 * MaxSessions) : StopCheck(t)
    \/ \E t \in 1..(2 * MaxSessions) : StopWake(t)
    \/ \E t \in 1..(2 * MaxSessions) : StopStop(t)
    \/ \E t \in 1..(2 * MaxSessions) : StopRecognizeCall(t)
    \/ \E t \in 1..(2 * MaxSessions) : StopRecognize(t)
    \/ \E t \in 1..(2 * MaxSessions) : StopType(t)
    \/ \E i \in 1..MaxSessions : SimpleCaptureRead(i)
    \/ \E i \in 1..MaxSessions : SimpleCaptureExit(i)
    \/ SimpleTick

SpecSimple == Init /\ [][NextSimple]_vars

\* one AudioRecorder alone
NextRecorder ==
    \/ RecStart
    \/ RecStop
    \/ RecCaptureBegin
    \/ RecCaptureLoop
    \/ RecCaptureRead
    \/ RecCaptureExit

SpecRecorder == Init /\ [][NextRecorder]_vars

\* the process from its entry point
NextMain ==
    \/ MainStart
    \/ MainChecks
    \/ InitConfig
    \/ LoadModel
    \/ DownloadModel
    \/ VoskModel
    \/ InitHotkeyHandler
    \/ DaemonExcept
    \/ RunEnter
    \/ RunStart
    \/ RunRaise
    \/ KeyboardInterrupt

SpecMain == Init /\ [][NextMain]_vars

\* one call of recognize
NextRecognize == RecognizeCall \/ RecognizeChunk \/ RecognizeFinal

SpecRecognize == Init /\ [][NextRecognize]_vars

\* the WAV container alone
NextWav == BuildWav

SpecWav == Init /\ [][NextWav]_vars

\* the CLI commands, the processes they fork and the surroundings
NextCli ==
    \/ CliIsRunning
    \/ CliStart
    \/ CliStop
    \/ \E pid \in 1..MaxPid : Daemonize(pid)
    \/ \E pid \in 1..MaxPid : DaemonExits(pid)
    \/ \E pid \in 1..MaxPid : ForeignProcess(pid)
    \/ PidFileFound

SpecCli == Init /\ [][NextCli]_vars

\* SoundPlayer with its playback threads
NextSound ==
    \/ PlaySound
    \/ \E t \in 1..MaxPlays : PlayAsync(t)

SpecSound == Init /\ [][NextSound]_vars

-----------------------------------------------------------------------------
\* Properties of HotkeyHandler (checked under Spec)

IsPrefix(a, b) == Len(a) <= Len(b) /\ SubSeq(b, 1, Len(a)) = a

Recorders == 1..Len(recorders)

\* C1: no two sessions overlap: at no instant are two AudioRecorder instances
\* capturing (a press that arrives before the running session's stop_recording has
\* returned is ignored).
C1_NoOverlap == Cardinality({i \in Recorders : Capturing(recorders[i])}) <= 1

\* C2: every session whose press was held for the threshold and then released sees
\* exactly one start_recording, then exactly one stop_recording on its recorder, then
\* at most one recognize, in that order.
C2_SessionOrder ==
    \A i \in Recorders :
        recorders[i].press \in long_released =>
            /\ IsPrefix(recorders[i].ops, <<"start", "stop", "recognize">>)
            /\ Quiescent => Len(recorders[i].ops) >= 2

\* C3: after a release that came before the threshold the controller is Idle and the
\* capture the press started is aborted (loop stopped, device released).
C3_ShortReleaseAborts ==
    last = "release_too_short" =>
        /\ ~is_recording
        /\ \A i \in Recorders : ~Capturing(recorders[i]) /\ recorders[i].device # "open"

C5_SpaceReleaseNoEffect ==
    [][(nevents' = nevents + 1 /\ event'.type = "KeyRelease"
          /\ event'.detail = target_keycode /\ event'.ctrl)
       => UNCHANGED <<ready, press_time, is_recording>>]_vars

\* start_recording calls made by the coroutines of the current run of presses
RunStarts == Cardinality({i \in Recorders : recorders[i].run = run_id})

RunPending == \E k \in 1..Len(ready) : ready[k].co = "keypress" /\ ready[k].run = run_id

\* C7: for any number of qualifying presses with no qualifying release in between,
\* start_recording is invoked at most once, and exactly once with the state left at
\* Recording when the run began in Idle, also when a further press is delivered
\* before the first press's coroutine has run.
C7_OneStartPerRun ==
    /\ RunStarts <= 1
    /\ \A i \in Recorders : Len(SelectSeq(recorders[i].ops, LAMBDA o : o = "start")) = 1
    /\ (run_idle /\ run_presses >= 1 /\ ~RunPending) => RunStarts = 1 /\ is_recording

\* two presses were accepted before the first coroutine ran, and both coroutines have run
C7_Witness ==
    /\ run_idle /\ run_presses >= 2 /\ ~RunPending
    /\ npress = 2 /\ last = "keypress_noop"

\* C8: when start_recording fails to open the device the controller is Idle at once
\* and recognize is never called for that session.
C8_StartFailureAborts ==
    /\ last = "keypress_start_raised" => ~is_recording
    /\ \A i \in Recorders :
          recorders[i].failed => \A k \in 1..Len(recorders[i].ops) :
                                     recorders[i].ops[k] # "recognize"

\* C10: after recognize or the text injection raised inside on_voice_callback the
\* controller is Idle, so that the next qualifying press starts a new session.
C10_FailureLeavesIdle ==
    last \in {"callback_recognize_raised", "callback_type_raised"} => ~is_recording

-----------------------------------------------------------------------------
\* Properties of the text path (checked under SpecText)

\* C9: a recognition result that is empty or only whitespace leads to no keystroke:
\* _on_voice_text does not call type_text, and type_text given such a text calls
\* keyboard.type zero times.
C9_BlankTextNoKeystroke ==
    Strip(t_text) = <<>> =>
        /\ t_keys = <<>>
        /\ t_entry = "_on_voice_text" => t_type_text = 0

\* type_text was handed a text of whitespace only
C9_Witness == t_entry = "type_text" /\ t_text = <<" ", "\t">>

\* C24: for a text that is not blank, type_text makes one keyboard.type call per
\* character, in the order of the text: as many keystrokes as the text is long,
\* spaces included.
C24_OneKeystrokePerChar ==
    t_entry = "type_text" /\ Strip(t_text) # <<>> =>
        /\ Len(t_keys) = Len(t_text)
        /\ \A i \in 1..Len(t_text) : t_keys[i] = t_text[i]

\* a text with a space inside and one at its end was typed in full
C24_Witness ==
    /\ t_entry = "type_text"
    /\ t_text = <<"a", " ", " ">>
    /\ t_keys = <<"a", " ", " ">>

\* the number of stop_recording calls a recorder has received
StopCount(rec) == Cardinality({j \in 1..Len(rec.ops) : rec.ops[j] = "stop"})

\* this step calls stop_recording on some recorder
StopIssued ==
    \E i \in 1..Len(recorders) : StopCount(recorders'[i]) > StopCount(recorders[i])

\* this step is _handle_keyrelease running up to its sleep
ReleaseBegins ==
    ready # <<>> /\ Head(ready).co = "keyrelease" /\ ready' = Tail(ready)

C20_ShutdownStopsCapture ==
    process # "running" => \A i \in 1..Len(recorders) : ~Capturing(recorders[i])

\* the handler believes it is recording although the press is over and no
\* _handle_keyrelease is scheduled that would clear is_recording
Wedged ==
    /\ is_recording
    /\ press_time = None
    /\ \A k \in 1..Len(ready) : ready[k].co # "keyrelease"

\* C31: the handler never wedges: no sequence of short and long presses and releases
\* leaves it in a state in which every later Ctrl+Space press is ignored, so that a
\* later press held for the threshold and released still reaches stop_recording and
\* on_voice_callback.
C31_NeverWedged == ~Wedged

\* the number of on_voice_callback calls made with the audio of a recorder
CallbackCount(rec) == Cardinality({j \in 1..Len(rec.ops) : rec.ops[j] = "recognize"})

\* C32: no captured audio is transcribed twice: the samples captured by one
\* AudioRecorder are handed to on_voice_callback at most once.
C32_NoDoubleTranscription ==
    \A i \in Recorders : recorders[i].recording > 0 => CallbackCount(recorders[i]) <= 1

\* (a session is a run of presses ended by one release: recorders[i].run is the run
\* whose press created recorder i, Head(sleeping).run the run whose release is waking)
\* C33: the stop_recording made at the end of a session's post-release wait is
\* applied to the AudioRecorder which that session's _handle_keypress created, never
\* to one created by a later press.
C33_StopOnOwnRecorder ==
    [][\A i \in 1..Len(recorders) :
          StopCount(recorders'[i]) > StopCount(recorders[i])
             => sleeping # <<>> /\ recorders[i].run = Head(sleeping).run]_vars

\* C34: no recorder is leaked: once every press has been released and every
\* scheduled coroutine has finished, no AudioRecorder is still capturing or still
\* holds its device.
C34_NoRecorderLeaked ==
    (run_presses = 0 /\ press_time = None /\ Quiescent) =>
        \A i \in Recorders : ~Capturing(recorders[i]) /\ recorders[i].device # "open"

-----------------------------------------------------------------------------
\* Properties of SimpleHotkeyHandler (checked under SpecSimple)

\* C6: a Ctrl+Space press that arrives while a session's _stop_recording thread has
\* not finished is ignored: it starts no new recording (is_recording stays False, no
\* _start_recording thread is spawned for a later session).
C6_PressDuringStopIgnored ==
    \A t \in Threads :
        StopRunning(t) => ~s_is_recording /\ s_session = s_threads[t].session

\* the Ctrl keys that are physically down
CtrlHeld == {k \in s_held : IsCtrl(k)}

\* C11: after any sequence of presses and releases of left Ctrl, right Ctrl and Space,
\* ctrl_pressed is True exactly when at least one Ctrl key is held down.
C11_CtrlTracked == s_ctrl_pressed <=> CtrlHeld # {}

\* this step is the release of Space / of a Ctrl key
SpaceReleased == "space" \in s_held /\ "space" \notin s_held'
CtrlReleased == \E k \in s_held : IsCtrl(k) /\ k \notin s_held'

\* the _stop_recording threads spawned for session n
StopThreadsOf(ts, n) == {t \in 1..Len(ts) : ts[t].kind = "stop" /\ ts[t].session = n}

\* C12: releasing Space leaves is_recording, recording_started and ctrl_pressed as they
\* were and spawns no _stop_recording thread; a _stop_recording thread is spawned only
\* by a Ctrl release that finds is_recording True, that release clears is_recording,
\* and no session ever gets a second _stop_recording thread.
C12_SpaceReleaseKeepsSession ==
    [][ /\ SpaceReleased =>
              UNCHANGED <<s_is_recording, s_recording_started, s_ctrl_pressed, s_threads>>
        /\ CtrlReleased /\ s_is_recording =>
              /\ ~s_is_recording'
              /\ s_threads' = Append(s_threads, NewThread("stop", "hasattr", s_session))
        /\ Len(s_threads') > Len(s_threads) /\ s_threads'[Len(s_threads')].kind = "stop" =>
              CtrlReleased /\ s_is_recording
        /\ \A n \in 1..MaxSessions : Cardinality(StopThreadsOf(s_threads', n)) <= 1 ]_vars

\* Space was released while a Ctrl key stayed down and the session goes on
C12_Witness ==
    /\ s_last = "release_ignored"
    /\ "space" \notin s_held /\ CtrlHeld # {}
    /\ s_is_recording /\ s_recording_started /\ s_ctrl_pressed
    /\ StopThreadsOf(s_threads, s_session) = {}

\* C13: for a session whose Ctrl release came sooner than hold_threshold_ms after its
\* Ctrl+Space press, recognize is never called and nothing is typed.
C13_ShortHoldNoRecognize ==
    \A t \in Threads :
        s_threads[t].kind = "stop" /\ s_threads[t].session \in s_short =>
            /\ ~s_threads[t].recognize
            /\ \A i \in 1..Len(s_keys) : s_keys[i][1] # s_threads[t].session

\* C14: at most one _stop_recording thread is inside SpeechRecognizer.recognize.
C14_OneRecognizeAtATime ==
    Cardinality({t \in Threads : s_threads[t].pc = "recognizing"}) <= 1

\* C15: when a session's _stop_recording thread has made its hasattr check, the
\* recorder of that session has been created and started by _start_recording, and no
\* recorder is stopped before it is started.
C15_StopAfterStart ==
    /\ \A t \in Threads :
           s_threads[t].kind = "stop" /\ s_threads[t].pc # "hasattr" =>
               \E i \in 1..Len(s_recorders) :
                   /\ s_recorders[i].session = s_threads[t].session
                   /\ s_recorders[i].ops # <<>>
    /\ \A i \in 1..Len(s_recorders) :
           s_recorders[i].ops # <<>> => Head(s_recorders[i].ops) = "start"

\* C37: recognized texts are typed in the order in which their sessions were started
\* and the characters of two sessions' texts are never interleaved: in the keystroke
\* stream no character of a later session comes before one of an earlier session.
C37_TypedInSessionOrder ==
    \A i, j \in 1..Len(s_keys) : i < j => s_keys[i][1] <= s_keys[j][1]

-----------------------------------------------------------------------------
\* Properties of AudioRecorder called directly (checked under SpecRecorder)

\* this step is a call of stop_recording on the lone recorder
RecStopCalled == StopCount(r_rec') > StopCount(r_rec)

\* C17: stop_recording called while the recorder is not recording (never started, or
\* already stopped) returns the empty payload b"".
C17_StopIdempotent ==
    [][ RecStopCalled /\ ~r_rec.is_recording => r_ret' = 0 ]_vars

\* C18: a stop_recording whose join timed out still completes: afterwards recorder is
\* None, the device it held is deleted, is_recording is False, and the call returned
\* the frames buffered when it was made.
C18_StopCompletesOnTimeout ==
    [][ RecStopCalled /\ r_last' = "stop_timeout" =>
            /\ r_rec'.recorder = "None"
            /\ r_rec.recorder = "handle" => r_rec'.device = "deleted"
            /\ ~r_rec'.is_recording
            /\ r_ret' = r_rec.recording ]_vars

\* a stop_recording timed out on its join with frames buffered: the capture thread
\* is still alive, the device is gone and the frames were returned
C18_Witness ==
    /\ r_last = "stop_timeout"
    /\ r_rec.record_thread = "running"
    /\ r_rec.recorder = "None" /\ r_rec.device = "deleted"
    /\ r_ret = r_rec.recording /\ r_ret > 0

\* C39: the capture thread never calls read or stop on a handle that stop_recording
\* has deleted: under every interleaving of _record_audio with stop_recording, a
\* join that timed out included, every use of the handle sees the device not deleted.
C39_NoUseAfterDelete == \A u \in r_uses : u[2] # "deleted"

-----------------------------------------------------------------------------
\* Properties of the process (checked under SpecMain)

\* C19: Blurt.run blocks until it is interrupted: no exception leaves it and the
\* process does not end after run was entered unless a KeyboardInterrupt was
\* delivered, and once the call of start() has been made the key monitor runs.
C19_RunBlocksUntilInterrupt ==
    /\ m_exc = "RuntimeError" => m_interrupted
    /\ m_coro = "created" /\ m_pc # "exited" => m_monitor

\* C21: when vosk.Model fails to load, the exception leaves Blurt.__init__: the
\* process is on its way out with that exception and start() was never called; and
\* Blurt.run is reached only with a loaded model.
C21_NoRunWithoutModel ==
    /\ m_vosk = "failed" =>
          /\ m_exc = "Exception"
          /\ m_pc \in {"daemon_except", "exited"}
          /\ m_coro = "none"
    /\ m_pc \in {"hotkey_handler", "run", "run_try", "run_raise"} \/ m_coro = "created"
          => m_vosk = "loaded"

\* the model failed to load and the process has ended with that exception
C21_Witness ==
    /\ m_vosk = "failed"
    /\ m_pc = "exited"
    /\ m_exit = "Exception"
    /\ m_coro = "none"

-----------------------------------------------------------------------------
\* Properties of SpeechRecognizer.recognize (checked under SpecRecognize)

\* the AcceptWaveform calls the engine accepted with a non-empty text
Hits ==
    {i \in 1..Len(v_log) :
        v_log[i].accepted /\ v_log[i].result.has_text /\ v_log[i].result.text # <<>>}

FirstHit == CHOOSE i \in Hits : \A j \in Hits : i <= j

\* C22: with a model loaded, recognize returns the stripped text of the first chunk
\* result the engine accepted with a non-empty text; when no chunk gave one it
\* returns the stripped text of FinalResult, the empty string when that result has
\* an empty text or no text field.
C22_FirstTextElseFinal ==
    v_pc = "returned" /\ v_model =>
        IF Hits # {}
        THEN v_ret = <<Strip(v_log[FirstHit].result.text)>>
        ELSE /\ Len(v_final) = 1
             /\ v_ret = <<IF v_final[1].has_text THEN Strip(v_final[1].text) ELSE <<>> >>

\* the first chunk was accepted with an empty text, the second with " a ", and "a"
\* was returned
C22_Witness ==
    /\ v_pc = "returned"
    /\ Len(v_log) = 2
    /\ v_log[1].accepted /\ v_log[1].result = [has_text |-> TRUE, text |-> <<>>]
    /\ v_log[2].accepted /\ v_log[2].result.text = <<" ", "a", " ">>
    /\ v_ret = << <<"a">> >>

\* C23: every AcceptWaveform call gets at most 4096 frames, the calls take the file
\* front to back without gap or overlap, the whole audio goes in one call only when
\* it is no longer than one chunk, no chunk is fed after the one that gave the first
\* non-empty result, and FinalResult is called only after all frames have been fed.
C23_ChunkedFeeding ==
    /\ \A i \in 1..Len(v_log) :
           /\ v_log[i].frames \in 1..read_frames
           /\ v_log[i].offset = (i - 1) * read_frames
           /\ v_log[i].offset + v_log[i].frames <= v_frames
           /\ i < Len(v_log) => v_log[i].frames = read_frames
           /\ v_log[i].frames = v_frames => v_frames <= read_frames
    /\ \A i \in Hits : i = Len(v_log) /\ v_final = <<>>
    /\ v_final # <<>> =>
           /\ v_left = 0
           /\ v_frames = 0 \/ (Len(v_log) > 0 /\
                  v_log[Len(v_log)].offset + v_log[Len(v_log)].frames = v_frames)

\* an audio longer than one chunk was fed in two calls and FinalResult was called
C23_Witness ==
    /\ v_pc = "returned"
    /\ v_frames > read_frames
    /\ Len(v_log) = 2
    /\ v_log[2].frames < read_frames
    /\ v_final # <<>>

-----------------------------------------------------------------------------
\* Properties of the WAV container (checked under SpecWav)

\* C25: the WAV built from N >= 1 captured samples under any configured channel
\* count has N * 2 * channels bytes of data in its header, and the RIFF size that
\* goes with it.
C25_HeaderByteCounts ==
    w_samples >= 1 =>
        /\ w_header.data_bytes = w_samples * sample_width * w_channels
        /\ w_header.riff_bytes = 36 + w_samples * sample_width * w_channels

-----------------------------------------------------------------------------
\* Properties of BlurtCLI (checked under SpecCli)

\* this step is a call of start / stop / _is_running
StartStep == c_n' = c_n + 1 /\ c_cmd' = "start"
StopStep == c_n' = c_n + 1 /\ c_cmd' = "stop"
IsRunningStep == c_n' = c_n + 1 /\ c_cmd' = "_is_running"

\* the PIDs that successful forks in a list of calls returned
ForkedPids(calls) ==
    {calls[i].pid : i \in {j \in 1..Len(calls) : calls[j].op = "fork" /\ calls[j].pid # None}}

\* the os.kill calls in a list of calls
Kills(calls) == {i \in 1..Len(calls) : calls[i].op = "kill"}

\* the PID file names a process that is alive (ours, or another user's)
NamesLive == c_file.state = "pid" /\ c_file.pid \in Pids /\ c_procs[c_file.pid] # "dead"
NamesOurs == NamesLive /\ c_procs[c_file.pid] # "foreign"

C27_StartWhenRunning ==
    [][ StartStep /\ NamesLive =>
          /\ \A i \in 1..Len(c_calls') : c_calls'[i].op = "kill" /\ c_calls'[i].sig = "0"
          /\ c_file' = c_file
          /\ c_procs' = c_procs
          /\ NamesOurs => c_result' = "already_running" ]_vars

\* start found the process of the PID file alive and left everything alone
C27_Witness ==
    /\ c_cmd = "start" /\ c_result = "already_running"
    /\ c_calls = <<KillCall(c_file.pid, "0")>>
    /\ c_file.state = "pid" /\ c_file.pid \in Pids
    /\ c_procs[c_file.pid] = "child"

\* C28: stop with a PID in the file whose process is signalled or not found sends
\* SIGTERM once, to that PID, and the PID file is gone afterwards; stop with no PID
\* to read (no file, unparseable text, or 0) makes no call and changes nothing.
C28_StopSignalsOnce ==
    [][ StopStep =>
          LET pid == get_pid(c_file)
          IN  /\ pid \in Pids /\ c_procs[pid] # "foreign" =>
                    /\ Cardinality(Kills(c_calls')) = 1
                    /\ c_calls'[1] = KillCall(pid, "SIGTERM")
                    /\ c_file' = AbsentFile
                    /\ c_result' \in {"stopped", "not_found"}
              /\ pid \notin Pids =>
                    /\ c_calls' = <<>>
                    /\ c_file' = c_file
                    /\ c_procs' = c_procs ]_vars

\* stop signalled the daemon named by the PID file and removed the file
C28_Witness ==
    /\ c_cmd = "stop" /\ c_result = "stopped"
    /\ c_calls = <<KillCall(c_calls[1].pid, "SIGTERM"), UnlinkCall>>
    /\ c_file = AbsentFile
    /\ c_procs[c_calls[1].pid] = "dead"

\* C29: _is_running returns True exactly when the file holds a PID and the probe of
\* that PID succeeds; when the probe finds no such process it removes the file and
\* returns False; without a file, or with text that is no number, it returns False
\* and makes no call.
C29_IsRunning ==
    [][ IsRunningStep =>
          /\ (c_result' = "True") <=> NamesOurs
          /\ c_result' = "True" => c_calls' = <<KillCall(c_file.pid, "0")>> /\ c_file' = c_file
          /\ c_file.state = "pid" /\ c_file.pid \in Pids /\ ~NamesLive =>
                 /\ c_result' = "False"
                 /\ c_file' = AbsentFile
          /\ c_file.state # "pid" =>
                 /\ c_result' = "False"
                 /\ c_calls' = <<>>
                 /\ c_file' = c_file
          /\ c_procs' = c_procs ]_vars

\* _is_running found the PID of the file dead and removed the file
C29_Witness ==
    /\ c_cmd = "_is_running" /\ c_result = "False"
    /\ Len(c_calls) = 2 /\ c_calls[1].op = "kill" /\ c_calls[2] = UnlinkCall
    /\ c_procs[c_calls[1].pid] = "dead"
    /\ c_file = AbsentFile

\* the processes that run the daemon main loop
Daemons == {p \in Pids : c_procs[p] = "daemon"}

\* C35: after a successful start the PID in the PID file is the PID of the process
\* that runs main_daemon: while a daemon is alive and the PID file holds a number,
\* the number names a daemon.
C35_PidFileNamesDaemon ==
    (Daemons # {} /\ c_file.state = "pid") => c_file.pid \in Daemons

\* C36: after any sequence of start and stop commands at most one Blurt daemon is
\* alive: start launches no second daemon while an earlier one is still running.
C36_AtMostOneDaemon == Cardinality(Daemons) <= 1

-----------------------------------------------------------------------------
\* Properties of SoundPlayer (checked under SpecSound)

\* C30: a _play_sound call starts no thread when the sound file is missing and
\* exactly one, a daemon thread, when it exists; it returns to its caller while
\* that thread has not yet run a player; and whatever the players do afterwards,
\* the caller's call stays returned, never raised.
C30_FireAndForget ==
    /\ [](p_caller \in {"none", "returned"})
    /\ [][ /\ p_n' = p_n + 1 =>
                 /\ p_caller' = "returned"
                 /\ ~p_exists' => p_threads' = p_threads
                 /\ p_exists' =>
                        /\ Len(p_threads') = Len(p_threads) + 1
                        /\ SubSeq(p_threads', 1, Len(p_threads)) = p_threads
                        /\ p_threads'[Len(p_threads')].daemon
                        /\ p_threads'[Len(p_threads')].pc = "running"
                        /\ p_threads'[Len(p_threads')].last = "none"
           /\ p_n' = p_n => p_caller' = p_caller /\ Len(p_threads') = Len(p_threads)
         ]_vars

\* one call found no file and started nothing, the other started a thread that has
\* since ended on an exception the loop does not list
C30_Witness ==
    /\ p_n = 2
    /\ Len(p_threads) = 1
    /\ p_threads[1].pc = "done" /\ p_threads[1].last = "OSError"
    /\ p_caller = "returned"

\* C38: playback tries paplay, aplay, play, ffplay in that order, runs the next
\* player only after the previous one failed and none after the first success, so
\* that at most one player succeeds for one notification.
C38_PlayersInOrder ==
    /\ [](\A t \in 1..Len(p_threads) :
             /\ IsPrefix(p_threads[t].runs, <<"paplay", "aplay", "play", "ffplay">>)
             /\ p_threads[t].last = "ok" => p_threads[t].pc = "done")
    /\ [][\A t \in 1..Len(p_threads) :
             p_threads'[t].runs # p_threads[t].runs =>
                 /\ Len(p_threads'[t].runs) = Len(p_threads[t].runs) + 1
                 /\ IsPrefix(p_threads[t].runs, p_threads'[t].runs)
                 /\ p_threads[t].last # "ok"
                 /\ p_threads[t].runs # <<>> =>
                        p_threads[t].last \in {"CalledProcessError", "FileNotFoundError",
                                               "TimeoutExpired"}]_vars

\* one playback found its first player working; another ran all four players, the
\* first three having failed
C38_Witness ==
    \E t, u \in 1..Len(p_threads) :
        /\ p_threads[t].runs = <<"paplay">> /\ p_threads[t].last = "ok"
        /\ p_threads[u].runs = <<"paplay", "aplay", "play", "ffplay">>
        /\ p_threads[u].pc = "done"

====
